---- MODULE Spec2Model ----
(***************************************************************************)
(* Model of LexicalModelCompiler.compile (tools/index.ts): the build       *)
(* pipeline that resolves the model identifier, emits the model script,    *)
(* builds the package archive and writes the merged .model_info manifest.  *)
(*                                                                         *)
(* Strings whose characters the code inspects (file names, the working     *)
(* directory, the identifier) are sequences of one-character strings.      *)
(* Emitted script text is a sequence of tokens.                            *)
(***************************************************************************)
EXTENDS Integers, Sequences, FiniteSets, TLC

(***************************************************************************)
(* Bounds of the model.                                                    *)
(***************************************************************************)
MaxFiles == 2
MaxSegs == 4
MaxFields == 2
MaxSources == 2

(***************************************************************************)
(* Character strings.                                                      *)
(***************************************************************************)
LowerChars ==
  {"a","b","c","d","e","f","g","h","i","j","k","l","m",
   "n","o","p","q","r","s","t","u","v","w","x","y","z"}

DigitChars == {"0","1","2","3","4","5","6","7","8","9"}

RECURSIVE Concat(_)
Concat(ss) == IF ss = <<>> THEN <<>> ELSE Head(ss) \o Concat(Tail(ss))

RECURSIVE Join(_, _)
Join(ss, sep) ==
  IF ss = <<>> THEN <<>>
  ELSE IF Len(ss) = 1 THEN ss[1]
  ELSE ss[1] \o sep \o Join(Tail(ss), sep)

Reverse(s) == [i \in 1..Len(s) |-> s[Len(s) + 1 - i]]

EndsWith(s, suffix) ==
  /\ Len(s) >= Len(suffix)
  /\ SubSeq(s, Len(s) - Len(suffix) + 1, Len(s)) = suffix

\* String.prototype.split with a one-character separator: always at least
\* one segment, empty segments kept.
RECURSIVE SplitFrom(_, _, _)
SplitFrom(s, sep, cur) ==
  IF s = <<>> THEN <<cur>>
  ELSE IF Head(s) = sep THEN <<cur>> \o SplitFrom(Tail(s), sep, <<>>)
  ELSE SplitFrom(Tail(s), sep, Append(cur, Head(s)))

Split(s, sep) == SplitFrom(s, sep, <<>>)

PathSep == "/"

INFO_SUFFIX == <<".","m","o","d","e","l","_","i","n","f","o">>
KMP_SUFFIX == <<".","m","o","d","e","l",".","k","m","p">>
JS_SUFFIX == <<".","m","o","d","e","l",".","j","s">>
BUILD == <<"b","u","i","l","d">>

\* One segment of MODEL_ID_PATTERN: [a-z_][a-z0-9_]*
IdSegment(seg) ==
  /\ seg # <<>>
  /\ seg[1] \in LowerChars \cup {"_"}
  /\ \A i \in 2..Len(seg) : seg[i] \in LowerChars \cup DigitChars \cup {"_"}

\* /^[a-z_][a-z0-9_]*\.[a-z_][a-z0-9_]*\.[a-z_][a-z0-9_]*$/
MODEL_ID_PATTERN(id) ==
  LET segs == Split(id, ".")
  IN  /\ Len(segs) = 3
      /\ \A i \in 1..3 : IdSegment(segs[i])

\* f.match(/\.model_info$/)
IsModelInfoName(f) == EndsWith(f, INFO_SUFFIX)

\* files.find(...): index of the first match, 0 when there is none.
FindIndex(files) ==
  IF \E i \in 1..Len(files) : IsModelInfoName(files[i])
  THEN CHOOSE i \in 1..Len(files) :
         /\ IsModelInfoName(files[i])
         /\ \A j \in 1..(i - 1) : ~IsModelInfoName(files[j])
  ELSE 0

\* model_info_file.match(/^(.+)\.model_info$/): null when the stem is empty.
StemMatches(f) == Len(f) > Len(INFO_SUFFIX) /\ EndsWith(f, INFO_SUFFIX)
Stem(f) == SubSeq(f, 1, Len(f) - Len(INFO_SUFFIX))

(***************************************************************************)
(* JSON values and objects.  A value is a record of one shape so that any  *)
(* two values compare: kind "undef" | "str" | "num" | "list" | "nested".   *)
(* An object is the sequence of its own properties in insertion order.     *)
(***************************************************************************)
Undef == [kind |-> "undef", s |-> <<>>, n |-> 0, ll |-> <<>>]
Str(cs) == [kind |-> "str", s |-> cs, n |-> 0, ll |-> <<>>]
Num(k) == [kind |-> "num", s |-> <<>>, n |-> k, ll |-> <<>>]
List(items) == [kind |-> "list", s |-> items, n |-> 0, ll |-> <<>>]
Nested(lists) == [kind |-> "nested", s |-> <<>>, n |-> 0, ll |-> lists]

\* JavaScript truthiness: undefined, "" and 0 are falsy, arrays are truthy.
Truthy(v) ==
  CASE v.kind = "undef" -> FALSE
    [] v.kind = "str" -> v.s # <<>>
    [] v.kind = "num" -> v.n # 0
    [] OTHER -> TRUE

\* Faulty variant: a && b written for a || b.
Or_And(a, b) == IF Truthy(a) THEN b ELSE a

\* a || b
Or(a, b) == IF Truthy(a) THEN a ELSE b

HasKey(obj, k) == \E i \in 1..Len(obj) : obj[i].k = k

\* obj[k]
Get(obj, k) ==
  IF HasKey(obj, k)
  THEN obj[CHOOSE i \in 1..Len(obj) : obj[i].k = k].v
  ELSE Undef

\* obj[k] = v: an existing property keeps its position, a new one is appended.
Set(obj, k, v) ==
  IF HasKey(obj, k)
  THEN [i \in 1..Len(obj) |-> IF obj[i].k = k THEN [k |-> k, v |-> v] ELSE obj[i]]
  ELSE Append(obj, [k |-> k, v |-> v])

IsDefined(e) == e.v.kind # "undef"

\* JSON.stringify(obj, null, 2) as read back by JSON.parse: properties whose
\* value is undefined are left out, the others keep their order.
Stringify(obj) == SelectSeq(obj, IsDefined)

(***************************************************************************)
(* The environment: the parent directory listing, the working directory,   *)
(* the info file, ../source, the project descriptor and the build folder.  *)
(***************************************************************************)
F_ABC == <<"a",".","b",".","c">> \o INFO_SUFFIX
F_XBC == <<"x",".","b",".","c">> \o INFO_SUFFIX
F_UPPER == <<"A",".","b",".","c">> \o INFO_SUFFIX
F_BARE == INFO_SUFFIX
F_OTHER == <<"r",".","m","d">>

FileNames == {F_ABC, F_XBC, F_UPPER, F_BARE, F_OTHER}

SegA == <<"a">>
SegBC == <<"b",".","c">>
SegG == <<"g">>
Segments == {BUILD, SegA, SegBC}

RECURSIVE SeqsUpTo(_, _)
SeqsUpTo(S, n) ==
  IF n = 0 THEN {<<>>}
  ELSE LET shorter == SeqsUpTo(S, n - 1)
       IN  shorter \cup {Append(q, x) : q \in shorter, x \in S}

Distinct(q) == \A i, j \in 1..Len(q) : i # j => q[i] # q[j]

Listings == {q \in SeqsUpTo(FileNames, MaxFiles) : Distinct(q)}

\* An absolute path: the separator, then the segments joined by it.
AbsPath(segs) == <<PathSep>> \o Join(segs, <<PathSep>>)

WorkDirs == {AbsPath(segs) : segs \in SeqsUpTo(Segments, MaxSegs)}

GoodDir == AbsPath(<<SegG, SegA, SegBC, BUILD>>)

OLD_KMP == <<"o","l","d",".","k","m","p">>
OLD_JS == <<"o","l","d",".","j","s">>

\* The fields of the info file and the values an author may give them.
FieldValues ==
  [id |-> {Str(<<"z",".","z",".","z">>)},
   name |-> {Str(<<"N","0">>)},
   license |-> {Str(<<"m","i","t">>)},
   version |-> {Str(<<"9">>)},
   languages |-> {List(<<>>), List(<<"fr">>)},
   authorName |-> {Str(<<"A","0">>)},
   authorEmail |-> {Str(<<>>)},
   description |-> {Str(<<"D","0">>)},
   lastModifiedDate |-> {Str(<<"T","0">>)},
   packageFilename |-> {Str(OLD_KMP)},
   packageFileSize |-> {Num(9)},
   jsFilename |-> {Str(OLD_JS)},
   jsFileSize |-> {Num(0)},
   packageIncludes |-> {List(<<"x">>)},
   minKeymanVersion |-> {Str(<<"1","1",".","0">>)},
   sourcePath |-> {Str(<<"p","/","q">>)}]

Fields == DOMAIN FieldValues

AuthorProperties ==
  UNION {{[k |-> f, v |-> v] : v \in FieldValues[f]} : f \in Fields}

DistinctKeys(obj) == \A i, j \in 1..Len(obj) : i # j => obj[i].k # obj[j].k

InfoObjects == {obj \in SeqsUpTo(AuthorProperties, MaxFields) : DistinctKeys(obj)}

\* The info file as JSON.parse reads it: ok is FALSE when the text is not JSON.
InfoFile(obj) == [ok |-> TRUE, obj |-> obj]
BadInfoFile == [ok |-> FALSE, obj |-> <<>>]

\* ../source: the files that exist there and their text.  A "ts:stmt" token
\* is a statement, a "ts:type" token a type-only declaration.
SourceNames == {"s1.ts", "e1.ts", "nf.ts"}
SourceExists(name) == name \in {"s1.ts", "e1.ts"}
SourceText(name) == IF name = "s1.ts" THEN <<"ts:stmt">> ELSE <<"ts:type">>

\* The caller's model source description.  wordBreaking is a reference into
\* the heap ("undefined" when the description has no word-breaking part).
WB_REF == "wb1"
NoRef == "undefined"

WordBreakingObject(has, srcs) ==
  [hasSources |-> has, sources |-> srcs, rootClass |-> "MyBreaker"]

NoObject == WordBreakingObject(FALSE, <<>>)

ModelSource(format, srcs, wb) ==
  [format |-> format, sources |-> srcs, rootClass |-> "MyModel", wordBreaking |-> wb]

Formats == {"custom-1.0", "fst-foma-1.0", "trie-1.0", "other-1.0"}

MainSourceLists == SeqsUpTo({"s1.ts", "nf.ts"}, MaxSources)
BreakerSourceLists == SeqsUpTo(SourceNames, MaxSources)

\* The project descriptor ../source/{id}.model.kps, by what the package
\* compiler makes of it.
KmpData(nodes, name, author, url, version, models, files, size) ==
  [nodes |-> nodes, name |-> name, author |-> author, url |-> url,
   version |-> version, lexicalModels |-> models, files |-> files, size |-> size]

FullKmp ==
  KmpData(TRUE, Str(<<"N">>), Str(<<"A">>), Str(<<"U">>), Str(<<"1">>),
          <<<<"en", "de">>, <<"fr">>>>,
          <<<<"m",".","j","s">>, <<"f",".","T","t","f">>>>, 4)

SparseKmp ==
  KmpData(TRUE, Undef, Undef, Undef, Undef, <<>>, <<<<"t","t","f">>>>, 3)

BareKmp ==
  KmpData(FALSE, Undef, Undef, Undef, Undef, <<>>, <<>>, 2)

NoKmp == KmpData(FALSE, Undef, Undef, Undef, Undef, <<>>, <<>>, 0)

Kps(status, data) == [status |-> status, data |-> data]

GoodKps == Kps("ok", FullKmp)

KpsFiles ==
  {GoodKps, Kps("ok", SparseKmp), Kps("ok", BareKmp),
   Kps("missing", NoKmp), Kps("malformed", NoKmp), Kps("unbuildable", FullKmp)}

\* The build folder before the run: file name -> size.
EmptyDisk == [f \in {} |-> 0]
OldDisk == [f \in {OLD_KMP, OLD_JS} |-> IF f = OLD_KMP THEN 50 ELSE 60]

Clock == {<<"T","1">>, <<"T","2">>}

(***************************************************************************)
(* The inputs of a run.                                                    *)
(***************************************************************************)
Input(files, dir, info, ms, wb, k, d, ro) ==
  [files |-> files, cwd |-> dir, info |-> info, modelSource |-> ms,
   wordBreaking |-> wb, kps |-> k, disk |-> d, readonly |-> ro]

PlainSource == ModelSource("trie-1.0", <<"s1.ts">>, NoRef)

\* Identity resolution: every listing against every working directory.
IdentityInputs ==
  {Input(files, dir, InfoFile(<<>>), PlainSource, NoObject, GoodKps, EmptyDisk, {}) :
     files \in Listings, dir \in WorkDirs}

\* Manifest merge: every author-supplied info object.
ManifestInputs ==
  {Input(<<F_ABC>>, GoodDir, InfoFile(obj), PlainSource, NoObject, k, OldDisk, {}) :
     obj \in InfoObjects, k \in {GoodKps}}

\* Code generation: every format, source list and word-breaking part.
SourceInputs ==
  {Input(<<F_ABC>>, GoodDir, InfoFile(<<>>), ModelSource(f, srcs, NoRef),
         NoObject, GoodKps, EmptyDisk, {}) :
     f \in Formats, srcs \in MainSourceLists}
  \cup
  {Input(<<F_ABC>>, GoodDir, InfoFile(<<>>), ModelSource(f, srcs, WB_REF),
         wb, GoodKps, EmptyDisk, {}) :
     f \in Formats, srcs \in MainSourceLists,
     wb \in {WordBreakingObject(FALSE, <<>>)}
              \cup {WordBreakingObject(TRUE, ws) : ws \in BreakerSourceLists}}

\* Packaging: every project descriptor, disk and unwritable output.
PackageInfos ==
  {InfoFile(<<>>), BadInfoFile,
   InfoFile(<<[k |-> "packageFilename", v |-> Str(OLD_KMP)]>>),
   InfoFile(<<[k |-> "jsFilename", v |-> Str(OLD_JS)]>>),
   InfoFile(<<[k |-> "name", v |-> Str(<<>>)],
              [k |-> "version", v |-> Str(<<>>)],
              [k |-> "lastModifiedDate", v |-> Str(<<>>)],
              [k |-> "packageFilename", v |-> Str(<<>>)]>>),
   InfoFile(<<[k |-> "name", v |-> Str(<<"N","0">>)],
              [k |-> "authorName", v |-> Str(<<"A","0">>)],
              [k |-> "authorEmail", v |-> Str(<<"E","0">>)],
              [k |-> "version", v |-> Str(<<"9">>)]>>)}

PackageInputs ==
  {Input(<<F_ABC>>, GoodDir, info, PlainSource, NoObject, k, d, ro) :
     info \in PackageInfos, k \in KpsFiles, d \in {EmptyDisk, OldDisk},
     ro \in {{}, {"js"}, {"model_info"}}}

(***************************************************************************)
(* State.                                                                  *)
(***************************************************************************)
VARIABLES
  pc,               \* the statement compile is at
  result,           \* "running", "false" (returned), "undefined" (returned), "raised"
  error,            \* what logError reported, or "raised"
  run,              \* 1 for the first invocation, 2 for the second
  parentFiles,      \* fs.readdirSync('../')
  cwd,              \* process.cwd()
  infoFile,         \* the parsed text of ../{id}.model_info
  kps,              \* ../source/{id}.model.kps
  readonly,         \* the outputs that cannot be written
  disk,             \* the build folder: file name -> size
  declared,         \* the model definition the caller builds modelSource from
  modelSource,      \* the caller's object
  heap,             \* the object modelSource.wordBreaking refers to
  model_info_file, model_id, model_info,
  groupPath, authorPath, bcp47Path,
  sources, oc, func, kmpJsonData,
  written,          \* the files this invocation has written, in order
  manifest          \* the object this invocation wrote as {id}.model_info

vars ==
  <<pc, result, error, run, parentFiles, cwd, infoFile, kps, readonly, disk,
    declared, modelSource, heap, model_info_file, model_id, model_info,
    groupPath, authorPath, bcp47Path, sources, oc, func, kmpJsonData,
    written, manifest>>

env == <<run, parentFiles, cwd, infoFile, kps, readonly, declared>>
caller == <<modelSource, heap>>
ident == <<model_info_file, model_id, groupPath, authorPath, bcp47Path>>
gen == <<sources, oc, func>>
out == <<disk, written, manifest>>

NoOc == [id |-> <<>>, format |-> "", wordBreaking |-> NoRef, fst |-> <<>>]

Locals ==
  /\ model_info_file = <<>>
  /\ model_id = <<>>
  /\ model_info = <<>>
  /\ groupPath = <<>>
  /\ authorPath = <<>>
  /\ bcp47Path = <<>>
  /\ sources = <<>>
  /\ oc = NoOc
  /\ func = <<>>
  /\ kmpJsonData = NoKmp
  /\ written = <<>>
  /\ manifest = <<>>

Start(in) ==
  /\ pc = "find"
  /\ result = "running"
  /\ error = "none"
  /\ run = 1
  /\ parentFiles = in.files
  /\ cwd = in.cwd
  /\ infoFile = in.info
  /\ kps = in.kps
  /\ readonly = in.readonly
  /\ disk = in.disk
  /\ declared = [modelSource |-> in.modelSource, wordBreaking |-> in.wordBreaking]
  /\ modelSource = in.modelSource
  /\ heap = [r \in {WB_REF} |-> in.wordBreaking]
  /\ Locals

Init ==
  \/ \E in \in IdentityInputs : Start(in)
  \/ \E in \in ManifestInputs : Start(in)
  \/ \E in \in SourceInputs : Start(in)
  \/ \E in \in PackageInputs : Start(in)

\* Faulty variant: the error is thrown instead of logged and returned.
ReturnFalse_Throws(kind) == pc' = "done" /\ result' = "raised" /\ error' = kind

\* return false after logError(kind)
ReturnFalse(kind) == pc' = "done" /\ result' = "false" /\ error' = kind

\* an exception leaves compile
Raise == pc' = "done" /\ result' = "raised" /\ error' = "raised"

Goto(label) == pc' = label /\ UNCHANGED <<result, error>>

kmpFileName == model_id \o KMP_SUFFIX
modelFileName == model_id \o JS_SUFFIX
modelInfoFileName == model_id \o INFO_SUFFIX
minKeymanVersion == <<"1","2",".","0">>

(***************************************************************************)
(* Load the model info file (lines 23-56).                                 *)
(***************************************************************************)
FindInfoFile ==
  /\ pc = "find"
  /\ LET i == FindIndex(parentFiles)
     IN  IF i = 0
         THEN ReturnFalse("discovery") /\ UNCHANGED model_info_file
         ELSE Goto("id") /\ model_info_file' = parentFiles[i]
  /\ UNCHANGED <<env, caller, model_id, groupPath, authorPath, bcp47Path,
                 model_info, gen, kmpJsonData, out>>

ResolveModelId ==
  /\ pc = "id"
  /\ IF ~StemMatches(model_info_file)
     THEN Raise /\ UNCHANGED model_id
     ELSE /\ model_id' = Stem(model_info_file)
          /\ IF MODEL_ID_PATTERN(Stem(model_info_file))
             THEN Goto("load")
             ELSE ReturnFalse("identity")
  /\ UNCHANGED <<env, caller, model_info_file, groupPath, authorPath, bcp47Path,
                 model_info, gen, kmpJsonData, out>>

LoadModelInfo ==
  /\ pc = "load"
  /\ IF infoFile.ok
     THEN Goto("path") /\ model_info' = infoFile.obj
     ELSE Raise /\ UNCHANGED model_info
  /\ UNCHANGED <<env, caller, ident, gen, kmpJsonData, out>>

(***************************************************************************)
(* Validate the model ID against the working directory (lines 78-90).      *)
(***************************************************************************)
PathSegments(dir) == Reverse(Split(dir, PathSep))

\* Faulty variant: the author and language segments are joined the other way round.
PathMatches_Swapped(paths, id) ==
  /\ Len(paths) >= 4
  /\ paths[1] = BUILD
  /\ id = paths[2] \o <<".">> \o paths[3]

\* the negation of the condition of line 79
PathMatches(paths, id) ==
  /\ Len(paths) >= 4
  /\ paths[1] = BUILD
  /\ id = paths[3] \o <<".">> \o paths[2]

ValidatePath ==
  /\ pc = "path"
  /\ LET paths == PathSegments(cwd)
     IN  IF PathMatches(paths, model_id)
         THEN /\ Goto("sources")
              /\ groupPath' = paths[4]
              /\ authorPath' = paths[3]
              /\ bcp47Path' = paths[2]
         ELSE /\ ReturnFalse("path")
              /\ UNCHANGED <<groupPath, authorPath, bcp47Path>>
  /\ UNCHANGED <<env, caller, model_info_file, model_id, model_info, gen,
                 kmpJsonData, out>>

(***************************************************************************)
(* Build the compiled lexical model (lines 96-131).                        *)
(***************************************************************************)
AllExist(names) == \A i \in 1..Len(names) : SourceExists(names[i])

\* names.map(source => fs.readFileSync(path.join(sourcePath, source), 'utf8'))
ReadAll(names) == [i \in 1..Len(names) |-> SourceText(names[i])]

ReadSources ==
  /\ pc = "sources"
  /\ IF AllExist(modelSource.sources)
     THEN /\ Goto("emit")
          /\ sources' = ReadAll(modelSource.sources)
          /\ oc' = [id |-> model_id, format |-> modelSource.format,
                    wordBreaking |-> modelSource.wordBreaking, fst |-> <<>>]
     ELSE Raise /\ UNCHANGED <<sources, oc>>
  /\ UNCHANGED <<env, caller, ident, model_info, func, kmpJsonData, out>>

\* ts.transpileModule(source, ...).outputText: statements are rewritten,
\* type-only declarations leave no output.
TranspileToken(t) == IF t = "ts:stmt" THEN <<"js:stmt">> ELSE <<>>
TranspileModule(text) == Concat([i \in 1..Len(text) |-> TranspileToken(text[i])])

transpileSources(texts) == [i \in 1..Len(texts) |-> TranspileModule(texts[i])]

\* createTrieDataStructure(sources): the serialized trie of the word lists.
createTrieDataStructure(texts) == <<"{trie:">> \o Concat(texts) \o <<"}">>

filePrefix == <<"(function() {\n'use strict';\n">>
funcPrefix == <<"com.keyman.lexicalModel.register(">>
funcSuffix == <<");">>
fileSuffix == <<"})();">>
NL == <<"\n">>

EmitCustom ==
  filePrefix \o funcPrefix \o funcSuffix \o NL
    \o Join(transpileSources(sources), NL)
    \o <<"LMLayerWorker.loadModel(new ", modelSource.rootClass, "());\n">>

EmitTrie ==
  filePrefix \o <<"var model = {};\n">>
    \o <<"model.backingData = ">> \o createTrieDataStructure(sources) \o <<";\n">>
    \o <<"LMLayerWorker.loadModel(new models.WordListModel(model.backingData));\n">>

EmitModel ==
  /\ pc = "emit"
  /\ CASE modelSource.format = "custom-1.0" ->
            Goto("wordbreak") /\ func' = EmitCustom /\ UNCHANGED oc
       [] modelSource.format = "fst-foma-1.0" ->
            /\ oc' = [oc EXCEPT !.fst = <<"base64:">> \o Concat(sources)]
            /\ ReturnFalse("unimplemented")
            /\ UNCHANGED func
       [] modelSource.format = "trie-1.0" ->
            \/ Goto("wordbreak") /\ func' = EmitTrie /\ UNCHANGED oc
            \/ Raise /\ UNCHANGED <<func, oc>>
       [] OTHER ->
            ReturnFalse("unknown") /\ UNCHANGED <<func, oc>>
  /\ UNCHANGED <<env, caller, ident, model_info, sources, kmpJsonData, out>>

(***************************************************************************)
(* Load custom wordbreak source files (lines 137-158).                     *)
(***************************************************************************)
\* JSON.stringify(oc.wordBreaking)
StringifyWordBreaking(wb) ==
  <<"{">>
    \o (IF wb.hasSources THEN <<"\"sources\":">> \o wb.sources ELSE <<>>)
    \o <<"\"rootClass\":", wb.rootClass, "}">>

\* delete oc.wordBreaking.sources
DeleteSources(wb) == [wb EXCEPT !.hasSources = FALSE, !.sources = <<>>]

CustomBreaker(text, rootClass) ==
  NL \o text \o NL \o <<"LMLayerWorker.loadWordBreaker(new ", rootClass, "());\n">>

DefaultBreaker(wb) ==
  <<"LMLayerWorker.loadWordBreaker(new DefaultWordBreaker(">>
    \o StringifyWordBreaking(wb) \o <<"));\n">>

\* if(wordBreakingSource): an empty string is falsy, like undefined
HasBreakerSource(defined, text) == defined /\ text # <<>>

EmitWordBreaker ==
  /\ pc = "wordbreak"
  /\ IF modelSource.wordBreaking = NoRef
     THEN Goto("write_js") /\ func' = func \o fileSuffix /\ UNCHANGED heap
     ELSE LET wb == heap[modelSource.wordBreaking]
          IN  IF wb.hasSources /\ ~AllExist(wb.sources)
              THEN Raise /\ UNCHANGED <<func, heap>>
              ELSE LET wordBreakingSource ==
                         Join(transpileSources(ReadAll(wb.sources)), NL)
                       after ==
                         IF wb.hasSources
                         THEN [heap EXCEPT ![oc.wordBreaking] = DeleteSources(@)]
                         ELSE heap
                   IN  /\ Goto("write_js")
                       /\ heap' = after
                       /\ func' =
                            func
                              \o (IF HasBreakerSource(wb.hasSources, wordBreakingSource)
                                  THEN CustomBreaker(wordBreakingSource,
                                                     after[modelSource.wordBreaking].rootClass)
                                  ELSE DefaultBreaker(after[oc.wordBreaking]))
                              \o fileSuffix
  /\ UNCHANGED <<env, modelSource, ident, model_info, sources, oc, kmpJsonData, out>>

(***************************************************************************)
(* Save the script and create the package (lines 162-171).                 *)
(***************************************************************************)
\* fs.writeFileSync(name, ...): the file now has this size
WriteFile(d, name, size) == (name :> size) @@ d

WriteScript ==
  /\ pc = "write_js"
  /\ IF "js" \in readonly
     THEN Raise /\ UNCHANGED <<disk, written>>
     ELSE /\ Goto("kps")
          /\ disk' = WriteFile(disk, modelFileName, Len(func))
          /\ written' = Append(written, modelFileName)
  /\ UNCHANGED <<env, caller, ident, model_info, gen, kmpJsonData, manifest>>

\* fs.readFileSync(kpsFileName) and kmpCompiler.transformKpsToKmpObject
transformKpsToKmpObject(id, kpsFile) == kpsFile.data

CompilePackage ==
  /\ pc = "kps"
  /\ IF kps.status \in {"missing", "malformed"}
     THEN Raise /\ UNCHANGED kmpJsonData
     ELSE Goto("kmp") /\ kmpJsonData' = transformKpsToKmpObject(model_id, kps)
  /\ UNCHANGED <<env, caller, ident, model_info, gen, out>>

\* kmpCompiler.buildKmpFile(kmpJsonData, kmpFileName)
BuildKmpFile ==
  /\ pc = "kmp"
  /\ IF kps.status = "unbuildable"
     THEN Raise /\ UNCHANGED <<disk, written>>
     ELSE /\ Goto("merge")
          /\ disk' = WriteFile(disk, kmpFileName, kmpJsonData.size)
          /\ written' = Append(written, kmpFileName)
  /\ UNCHANGED <<env, caller, ident, model_info, gen, kmpJsonData, manifest>>

(***************************************************************************)
(* Build and write the merged .model_info file (lines 180-196).            *)
(***************************************************************************)
\* Faulty variant: the field is assigned the computed value whatever it held.
FillBlank_Overwrite(info, k, v) == Set(info, k, v)

\* Faulty variant: the value is computed and not assigned.
FillBlank_Unassigned(info, k, v) == info

\* model_info[k] = model_info[k] || v
FillBlank(info, k, v) == Set(info, k, Or(Get(info, k), v))

LowerCase(ch) ==
  CASE ch = "O" -> "o" [] ch = "T" -> "t" [] ch = "F" -> "f" [] OTHER -> ch

\* e.name.match(/.[ot]tf$/i)
IsFontName(name) ==
  /\ Len(name) >= 4
  /\ LowerCase(name[Len(name) - 2]) \in {"o", "t"}
  /\ LowerCase(name[Len(name) - 1]) = "t"
  /\ LowerCase(name[Len(name)]) = "f"

\* kmpJsonData.files.filter(...).length ? ['fonts'] : []
PackageIncludes(kmp) ==
  IF \E i \in 1..Len(kmp.files) : IsFontName(kmp.files[i])
  THEN List(<<"fonts">>)
  ELSE List(<<>>)

\* [].concat(lexicalModels.map(e => e.languages.map(f => f.id))): concat
\* spreads the outer array only, the result is a list of lists of ids.
PackageLanguages(kmp) == Nested(kmp.lexicalModels)

\* fs.statSync(name).size, for a name that exists
StatSize(d, name) == Num(d[name.s])

Exists(d, name) == name.kind = "str" /\ name.s \in DOMAIN d

\* the name the package size is measured from (line 186 feeding line 187)
PackageFilename(info, id) == Or(Get(info, "packageFilename"), Str(id \o KMP_SUFFIX))

\* the name the script size is measured from (line 188 feeding line 189)
JsFilename(info, id) == Or(Get(info, "jsFilename"), Str(id \o JS_SUFFIX))

\* line 180
MergeId(info, id) == Set(info, "id", Str(id))

\* lines 180-194, when no statement raises
Merged(info, id, kmp, d, now, group, author, bcp47) ==
  LET m1 == MergeId(info, id)
      m2 == FillBlank(m1, "name", kmp.name)
      m3 == FillBlank(m2, "authorName", kmp.author)
      m4 == FillBlank(m3, "authorEmail", kmp.url)
      m5 == FillBlank(m4, "languages", PackageLanguages(kmp))
      m6 == FillBlank(m5, "lastModifiedDate", Str(now))
      m7 == Set(m6, "packageFilename", PackageFilename(m6, id))
      m8 == Set(m7, "packageFileSize", StatSize(d, Get(m7, "packageFilename")))
      m9 == Set(m8, "jsFilename", JsFilename(m8, id))
      m10 == Set(m9, "jsFileSize", StatSize(d, Get(m9, "jsFilename")))
      m11 == Set(m10, "packageIncludes", PackageIncludes(kmp))
      m12 == FillBlank(m11, "version", kmp.version)
      m13 == FillBlank(m12, "minKeymanVersion", Str(minKeymanVersion))
  IN  FillBlank(m13, "sourcePath",
                Str(Join(<<group, author, bcp47>>, <<"/">>)))

\* a blank field read from a node the package descriptor lacks
NeedsMissingNode(info, kmp) ==
  /\ ~kmp.nodes
  /\ \E k \in {"name", "authorName", "authorEmail", "version"} : ~Truthy(Get(info, k))

\* fs.statSync of a file that does not exist
StatFails(info, id, d) ==
  \/ ~Exists(d, PackageFilename(info, id))
  \/ ~Exists(d, JsFilename(info, id))

MergeModelInfo ==
  /\ pc = "merge"
  /\ IF NeedsMissingNode(model_info, kmpJsonData) \/ StatFails(model_info, model_id, disk)
     THEN Raise /\ UNCHANGED model_info
     ELSE /\ Goto("write_info")
          /\ \E now \in Clock :
               model_info' = Merged(model_info, model_id, kmpJsonData, disk, now,
                                    groupPath, authorPath, bcp47Path)
  /\ UNCHANGED <<env, caller, ident, gen, kmpJsonData, out>>

\* Faulty variant: the manifest is written as soon as the script is, before the package.
WriteModelInfo_BeforePackage ==
  /\ pc \in {"write_info", "kps"}
  /\ pc' = "done"
  /\ result' = "undefined"
  /\ error' = "none"
  /\ manifest' = Stringify(model_info)
  /\ disk' = WriteFile(disk, modelInfoFileName, Len(Stringify(model_info)))
  /\ written' = Append(written, modelInfoFileName)
  /\ UNCHANGED <<env, caller, ident, model_info, gen, kmpJsonData>>

WriteModelInfo ==
  /\ pc = "write_info"
  /\ IF "model_info" \in readonly
     THEN Raise /\ UNCHANGED out
     ELSE /\ pc' = "done"
          /\ result' = "undefined"
          /\ error' = "none"
          /\ manifest' = Stringify(model_info)
          /\ disk' = WriteFile(disk, modelInfoFileName, Len(Stringify(model_info)))
          /\ written' = Append(written, modelInfoFileName)
  /\ UNCHANGED <<env, caller, ident, model_info, gen, kmpJsonData>>

(***************************************************************************)
(* A second invocation, in a new process, on the manifest the first wrote. *)
(***************************************************************************)
Recompile ==
  /\ pc = "done"
  /\ result = "undefined"
  /\ run = 1
  /\ run' = 2
  /\ pc' = "find"
  /\ result' = "running"
  /\ error' = "none"
  /\ infoFile' = InfoFile(manifest)
  /\ modelSource' = declared.modelSource
  /\ heap' = [r \in {WB_REF} |-> declared.wordBreaking]
  /\ model_info_file' = <<>>
  /\ model_id' = <<>>
  /\ model_info' = <<>>
  /\ groupPath' = <<>>
  /\ authorPath' = <<>>
  /\ bcp47Path' = <<>>
  /\ sources' = <<>>
  /\ oc' = NoOc
  /\ func' = <<>>
  /\ kmpJsonData' = NoKmp
  /\ written' = <<>>
  /\ manifest' = <<>>
  /\ UNCHANGED <<parentFiles, cwd, kps, readonly, declared, disk>>

Next ==
  \/ FindInfoFile
  \/ ResolveModelId
  \/ LoadModelInfo
  \/ ValidatePath
  \/ ReadSources
  \/ EmitModel
  \/ EmitWordBreaker
  \/ WriteScript
  \/ CompilePackage
  \/ BuildKmpFile
  \/ MergeModelInfo
  \/ WriteModelInfo
  \/ Recompile

Spec == Init /\ [][Next]_vars

(***************************************************************************)
(* Properties.                                                             *)
(***************************************************************************)
Succeeded == pc = "done" /\ result = "undefined"

\* The fields the merger always recomputes from the build.
Recomputed == {"packageFileSize", "jsFileSize", "packageIncludes"}

\* The fields the merger fills when they are blank.
Filled ==
  {"name", "authorName", "authorEmail", "languages", "lastModifiedDate",
   "packageFilename", "jsFilename", "version", "minKeymanVersion", "sourcePath"}

Supplied(k) == HasKey(infoFile.obj, k)

NonBlank(k) == Supplied(k) /\ Get(infoFile.obj, k) # Str(<<>>)

\* C1 (as claimed): after a successful compile every field other than
\* packageFileSize, jsFileSize and packageIncludes that the author supplied
\* non-blank, id included, has the value the author gave it.
C1_AuthorFieldsKept ==
  Succeeded =>
    \A k \in Fields \ Recomputed :
      NonBlank(k) => Get(manifest, k) = Get(infoFile.obj, k)

\* C1 (amended): after a successful compile id is the identifier taken from
\* the info file's name whatever the author gave; every other field, bar
\* packageFileSize, jsFileSize and packageIncludes, that the author supplied
\* non-blank has the value the author gave it, and a field the merger never
\* assigns (license, description) keeps its value even when blank.
C1_NonBlankAuthorFieldsKept ==
  Succeeded =>
    /\ Get(manifest, "id") = Str(model_id)
    /\ \A k \in Fields \ (Recomputed \cup {"id"}) :
         NonBlank(k) => Get(manifest, k) = Get(infoFile.obj, k)
    /\ \A k \in Fields \ (Filled \cup Recomputed \cup {"id"}) :
         Supplied(k) => Get(manifest, k) = Get(infoFile.obj, k)

C1_Witness ==
  /\ Succeeded
  /\ run = 1
  /\ Get(infoFile.obj, "name") = Str(<<"N","0">>)
  /\ Get(infoFile.obj, "id") = Str(<<"z",".","z",".","z">>)
  /\ Get(manifest, "name") = Str(<<"N","0">>)

\* C2: after a successful compile packageFileSize is the size of the package
\* archive {id}.model.kmp this run wrote and jsFileSize the size of the
\* script {id}.model.js this run wrote, whatever the input manifest held.
C2_SizesOfWrittenArtifacts ==
  Succeeded =>
    /\ Get(manifest, "packageFileSize") = Num(disk[kmpFileName])
    /\ Get(manifest, "jsFileSize") = Num(disk[modelFileName])

\* A field is populated when the manifest has it and it is not an empty string.
Populated(k) == HasKey(manifest, k) /\ Get(manifest, k) # Str(<<>>)

\* C3 (as claimed): after a successful compile every field of the info file
\* is populated, whichever of them the input lacked.
C3_EveryFieldPopulated ==
  Succeeded => \A k \in Fields : Populated(k)

AlwaysPopulated ==
  {"id", "languages", "lastModifiedDate", "packageFilename", "packageFileSize",
   "jsFilename", "jsFileSize", "packageIncludes", "minKeymanVersion", "sourcePath"}

DescriptorValue(k) ==
  CASE k = "name" -> kmpJsonData.name
    [] k = "authorName" -> kmpJsonData.author
    [] k = "authorEmail" -> kmpJsonData.url
    [] k = "version" -> kmpJsonData.version

\* C3 (amended): after a successful compile id, languages, lastModifiedDate,
\* packageFilename, packageFileSize, jsFilename, jsFileSize, packageIncludes,
\* minKeymanVersion and sourcePath are populated; name, authorName,
\* authorEmail and version are populated exactly when the input or the
\* package descriptor gives a non-blank value; license and description are
\* in the manifest exactly when the input had them.
C3_ComputedFieldsPopulated ==
  Succeeded =>
    /\ \A k \in AlwaysPopulated : Populated(k)
    /\ \A k \in {"name", "authorName", "authorEmail", "version"} :
         Populated(k) <=> (Truthy(Get(infoFile.obj, k)) \/ Truthy(DescriptorValue(k)))
    /\ \A k \in {"license", "description"} : HasKey(manifest, k) <=> Supplied(k)

C3_Witness ==
  /\ Succeeded
  /\ run = 1
  /\ infoFile.obj = <<>>
  /\ kmpJsonData = SparseKmp
  /\ Len(manifest) = 10

InfoFileCount == Cardinality({i \in 1..Len(parentFiles) : EndsWith(parentFiles[i], INFO_SUFFIX)})

\* C4: discovery succeeds only when exactly one file name in the parent
\* directory ends in .model_info; with none, or with two or more, compile
\* returns the discovery error and goes no further.
C4_ExactlyOneInfoFile ==
  (pc # "find" /\ InfoFileCount # 1) =>
    /\ pc = "done"
    /\ result = "false"
    /\ error = "discovery"

\* The working directory read forwards: its last four segments.
DirSegments == Split(cwd, PathSep)
Last(k) == DirSegments[Len(DirSegments) - k]

PathChecked == error = "path" \/ authorPath # <<>>

\* C5: for an identifier of the author.bcp47.uniq shape, resolution succeeds
\* exactly when the working directory has at least four segments, ends in
\* build and author + "." + language directory is the identifier; group,
\* author and language are then the three segments before build.
C5_PathResolution ==
  PathChecked =>
    /\ MODEL_ID_PATTERN(model_id)
    /\ authorPath # <<>> <=>
         /\ Len(DirSegments) >= 4
         /\ Last(0) = <<"b","u","i","l","d">>
         /\ model_id = Last(2) \o <<".">> \o Last(1)
    /\ authorPath # <<>> =>
         /\ error # "path"
         /\ groupPath = Last(3)
         /\ authorPath = Last(2)
         /\ bcp47Path = Last(1)

C5_Witness ==
  /\ pc = "sources"
  /\ cwd = AbsPath(<<BUILD, SegA, SegBC, BUILD>>)
  /\ groupPath = BUILD
  /\ authorPath = SegA
  /\ bcp47Path = SegBC

ValidationErrors == {"discovery", "identity", "path", "unimplemented", "unknown"}

KnownFormats == {"custom-1.0", "fst-foma-1.0", "trie-1.0"}

\* C6: a validation failure compile checks itself (no info file, identifier
\* of the wrong shape, identifier not matching the path, format
\* fst-foma-1.0, unknown format) ends the run with the failure indicator
\* returned, not raised, and with none of the three artifacts written; a run
\* on format fst-foma-1.0 or on an unknown format never succeeds.
C6_ValidationFailureWritesNothing ==
  /\ error \in ValidationErrors =>
       /\ pc = "done"
       /\ result = "false"
       /\ written = <<>>
       /\ manifest = <<>>
       /\ run = 1 =>
            {modelFileName, kmpFileName, modelInfoFileName} \cap DOMAIN disk = {}
  /\ result = "false" => error \in ValidationErrors
  /\ pc = "done" =>
       /\ InfoFileCount = 0 => error = "discovery"
       /\ (model_id # <<>> /\ ~MODEL_ID_PATTERN(model_id)) => error = "identity"
       /\ modelSource.format \notin {"custom-1.0", "trie-1.0"} =>
            result # "undefined" /\ written = <<>>
  /\ error = "unimplemented" => modelSource.format = "fst-foma-1.0"
  /\ error = "unknown" => modelSource.format \notin KnownFormats

C6_Witness ==
  /\ pc = "done"
  /\ result = "false"
  /\ error = "unimplemented"
  /\ oc.fst = <<"base64:", "ts:stmt">>
  /\ written = <<>>

\* C7: a second compile on the manifest the first one wrote, with the same
\* package descriptor and artifacts, writes the same manifest: the same
\* fields with the same values in the same order.
C7_MergeIdempotent ==
  (run = 2 /\ Succeeded) => manifest = infoFile.obj

C7_Witness ==
  /\ run = 2
  /\ Succeeded
  /\ Len(manifest) = 15
  /\ manifest[1].k = "license"
  /\ manifest[2].k = "version"

\* C8: compile leaves the caller's model source description as it was:
\* format, sources, rootClass and the word-breaking part with its sources.
C8_ModelSourceNotMutated ==
  /\ modelSource = declared.modelSource
  /\ modelSource.wordBreaking # NoRef =>
       heap[modelSource.wordBreaking] = declared.wordBreaking

Artifacts == <<modelFileName, kmpFileName, modelInfoFileName>>

IsPrefix(a, b) == Len(a) <= Len(b) /\ a = SubSeq(b, 1, Len(a))

\* C9: a run writes the script, then the package archive, then the manifest;
\* the manifest is written only after both others; when a step after the
\* script write raises, the script stays on disk as written and this run
\* writes no manifest.
C9_WriteOrder ==
  /\ IsPrefix(written, Artifacts)
  /\ manifest # <<>> => written = Artifacts
  /\ Succeeded => written = Artifacts /\ manifest # <<>>
  /\ (pc = "done" /\ result = "raised" /\ written # <<>>) =>
       /\ modelFileName \in DOMAIN disk
       /\ disk[modelFileName] = Len(func)
       /\ manifest = <<>>
       /\ Len(written) <= 2

C9_Witness ==
  /\ pc = "done"
  /\ result = "raised"
  /\ kps.status = "unbuildable"
  /\ written = <<modelFileName>>
  /\ disk[modelFileName] = Len(func)

Count(q, tok) == Cardinality({i \in 1..Len(q) : q[i] = tok})

CustomInvocations == Count(func, "LMLayerWorker.loadWordBreaker(new ")
DefaultInvocations ==
  Count(func, "LMLayerWorker.loadWordBreaker(new DefaultWordBreaker(")

WordBreakingEmitted == func # <<>> /\ func[Len(func)] = "})();"

\* C10: for custom-1.0 and trie-1.0 the word-breaking stage emits one
\* word-breaker invocation when the description declares a word-breaking
\* part and none when it does not; it constructs the author's root class
\* whenever that part lists sources (an empty list and sources with empty
\* transpiled text included) and the default word-breaker, with the
\* configuration stripped of its source list, only when it lists none.
C10_BreakerFollowsSourceList ==
  WordBreakingEmitted =>
    IF declared.modelSource.wordBreaking = NoRef
    THEN CustomInvocations + DefaultInvocations = 0
    ELSE /\ CustomInvocations + DefaultInvocations = 1
         /\ Count(func, "\"sources\":") = 0
         /\ declared.wordBreaking.hasSources <=> CustomInvocations = 1

====
